---- MODULE Spec2Model ----
(***************************************************************************)
(* Model of the cfd_playground repository:                                 *)
(*   geometry/build_and_mesh.py  - writes chamber.geo, calls gmsh, shows   *)
(*                                 a Matplotlib preview (cyl_faces)        *)
(*   test_cube/test_cube.py      - writes an OpenFOAM case, runs           *)
(*                                 blockMesh, simpleFoam, postProcess and  *)
(*                                 compares against a Poiseuille profile   *)
(*                                                                         *)
(* Lengths are decimal numbers of the source, kept exactly as integers in  *)
(* units of 0.0001 mm (Dec(3, 1750) is 3.175).                             *)
(***************************************************************************)
EXTENDS Integers, Sequences, FiniteSets, TLC

VARIABLES prog, pc, status, params, geo, groups, events, cylArgs, frame, faces, collections, err

vars == <<prog, pc, status, params, geo, groups, events, cylArgs, frame, faces, collections, err>>

\* ------------------------------------------------------------------ numbers

\* whole.frac4 as a count of 0.0001 mm
Dec(whole, frac4) == whole * 10000 + frac4

Mm(whole) == Dec(whole, 0)

\* ------------------------------------------------------------------ bounds

\* how many steps each varied parameter may move away from its default
MaxStep == 1

\* largest integer component of an axis handed to cyl_faces (besides 99)
MaxAxis == 1

\* largest number of segments handed to cyl_faces (the smallest is 3)
MaxSeg == 5

\* ------------------------------------------------------------------ parameters

\* build_and_mesh.py:12-17
DefaultParams ==
    [lx |-> Mm(30), ly |-> Mm(20), lz |-> Mm(20),
     tube_id |-> Dec(3, 1750), tube_len |-> Mm(18),
     mesh_x |-> Mm(10), mesh_thk |-> Dec(0, 1100),
     out_id |-> Dec(3, 1750), out_depth |-> Mm(2)]

\* spec section 3: lengths positive, tube diameters below min(lx, ly),
\* plate position strictly inside the envelope
Min(a, b) == IF a <= b THEN a ELSE b

ValidParams(p) ==
    /\ \A f \in DOMAIN p : p[f] > 0
    /\ p.tube_id < Min(p.lx, p.ly)
    /\ p.out_id < Min(p.lx, p.ly)
    /\ p.mesh_x < p.lx

\* the user-tunable numbers the model tries: the defaults and nearby values
ParamChoices ==
    { [DefaultParams EXCEPT !.lz = @ + Mm(a), !.tube_len = @ - Mm(b),
                            !.out_depth = @ + Mm(c), !.mesh_x = @ + Mm(d),
                            !.mesh_thk = @ + e * Dec(0, 1000)] :
        a \in 0..MaxStep, b \in 0..MaxStep, c \in 0..MaxStep,
        d \in 0..MaxStep, e \in 0..MaxStep }

\* ------------------------------------------------------------------ chamber.geo

\* one statement of the .geo script; unused fields are empty
Instr(op, tag, name, args, object, tool) ==
    [op |-> op, tag |-> tag, name |-> name, args |-> args,
     object |-> object, tool |-> tool]

\* faulty variant: the inlet box laid around the base of the tube (z = 2), not its top
InletBoxAtBase == <<Dec(3, 9000), Dec(9, 9000), Mm(2), Dec(4, 1000), Dec(10, 1000), Dec(2, 1000)>>

\* build_and_mesh.py:38
InletBox == <<Dec(3, 9000), Dec(9, 9000), Mm(20), Dec(4, 1000), Dec(10, 1000), Dec(20, 1000)>>

\* build_and_mesh.py:39
OutletBox == <<Dec(25, 9000), Dec(9, 9000), Dec(17, 9000), Dec(26, 1000), Dec(10, 1000), Dec(20, 1000)>>

\* build_and_mesh.py:40-41
MeshBox(p) ==
    <<p.mesh_x - Dec(0, 600), -Dec(0, 1000), -Dec(0, 1000),
      p.mesh_x + Dec(0, 600), p.ly + Dec(0, 1000), p.lz + Dec(0, 1000)>>

\* faulty variant: the plate is fused before the tubes are cut
BooleansFuseFirst ==
    << Instr("BooleanFuse", 0, "", <<>>, {1}, {4}),
       Instr("BooleanDifference", 0, "", <<>>, {1}, {2, 3}) >>

\* the two boolean statements, build_and_mesh.py:34-35 (both operands "Delete")
Booleans ==
    << Instr("BooleanDifference", 0, "", <<>>, {1}, {2, 3}),
       Instr("BooleanFuse", 0, "", <<>>, {1}, {4}) >>

\* the four solids, build_and_mesh.py:26-32
Primitives(p) ==
    << Instr("Box", 1, "", <<0, 0, 0, p.lx, p.ly, p.lz>>, {}, {}),
       Instr("Cylinder", 2, "",
             <<Mm(4), Mm(10), Mm(2), 0, 0, p.tube_len, p.tube_id \div 2>>, {}, {}),
       Instr("Cylinder", 3, "",
             <<Mm(26), Mm(10), p.lz, 0, 0, -p.out_depth, p.out_id \div 2>>, {}, {}),
       Instr("Box", 4, "",
             <<p.mesh_x - p.mesh_thk \div 2, 0, 0, p.mesh_thk, p.ly, p.lz>>, {}, {}) >>

\* the physical groups, build_and_mesh.py:37-42 ("*" is the wildcard selector)
Physicals(p) ==
    << Instr("PhysicalVolume", 0, "fluid", <<>>, {1}, {}),
       Instr("PhysicalSurface", 0, "inlet", InletBox, {}, {}),
       Instr("PhysicalSurface", 0, "outlet", OutletBox, {}, {}),
       Instr("PhysicalSurface", 0, "mesh", MeshBox(p), {}, {}),
       Instr("PhysicalSurface", 0, "walls", <<>>, {}, {}) >>

\* build_and_mesh.py:24-46, statement by statement
geo_template(p) ==
    << Instr("SetFactory", 0, "OpenCASCADE", <<>>, {}, {}) >>
    \o Primitives(p) \o Booleans \o Physicals(p) \o
    << Instr("CharacteristicLength", 0, "", <<Mm(2)>>, {1}, {}),
       Instr("Option", 0, "Mesh.CharacteristicLengthExtend", <<0>>, {}, {}) >>

\* ------------------------------------------------------------------ gmsh's reading of chamber.geo

\* the faces of one solid of the script, each with its bounding box
\* <<xmin, ymin, zmin, xmax, ymax, zmax>>; the cylinders of the script all
\* run along z (build_and_mesh.py:28-29)
Face(tag, face, bb) == [of |-> tag, face |-> face, bb |-> bb]

Max(a, b) == IF a >= b THEN a ELSE b

FacesOf(i) ==
    LET a == i.args IN
    IF i.op = "Box" THEN
        LET x0 == a[1]  y0 == a[2]  z0 == a[3]
            x1 == a[1] + a[4]  y1 == a[2] + a[5]  z1 == a[3] + a[6]
        IN { Face(i.tag, "xlo", <<x0, y0, z0, x0, y1, z1>>),
             Face(i.tag, "xhi", <<x1, y0, z0, x1, y1, z1>>),
             Face(i.tag, "ylo", <<x0, y0, z0, x1, y0, z1>>),
             Face(i.tag, "yhi", <<x0, y1, z0, x1, y1, z1>>),
             Face(i.tag, "zlo", <<x0, y0, z0, x1, y1, z0>>),
             Face(i.tag, "zhi", <<x0, y0, z1, x1, y1, z1>>) }
    ELSE IF i.op = "Cylinder" THEN
        LET r == a[7]
            za == Min(a[3], a[3] + a[6])  zb == Max(a[3], a[3] + a[6])
        IN { Face(i.tag, "base", <<a[1] - r, a[2] - r, a[3], a[1] + r, a[2] + r, a[3]>>),
             Face(i.tag, "end", <<a[1] - r, a[2] - r, a[3] + a[6],
                                  a[1] + r, a[2] + r, a[3] + a[6]>>),
             Face(i.tag, "side", <<a[1] - r, a[2] - r, za, a[1] + r, a[2] + r, zb>>) }
    ELSE {}

\* the candidate surfaces of the final solid: every surface of the result
\* is (a piece of) a face of one of the four solids
Surfaces(g) == UNION { FacesOf(g[k]) : k \in 1..Len(g) }

\* "Surface In BoundingBox{...}": the surfaces whose own box lies inside
InBoundingBox(s, box) ==
    /\ box[1] <= s.bb[1] /\ box[2] <= s.bb[2] /\ box[3] <= s.bb[3]
    /\ s.bb[4] <= box[4] /\ s.bb[5] <= box[5] /\ s.bb[6] <= box[6]

\* one Physical Surface statement: a bounding-box selection, or the
\* wildcard "*" (no box), which selects every surface
Selected(i, g) ==
    IF i.args = <<>> THEN Surfaces(g)
    ELSE { s \in Surfaces(g) : InBoundingBox(s, i.args) }

\* the physical surface groups the script defines, in the script's order
PhysicalGroups(g) ==
    LET ps == SelectSeq(g, LAMBDA i : i.op = "PhysicalSurface")
    IN [k \in 1..Len(ps) |-> [name |-> ps[k].name, members |-> Selected(ps[k], g)]]

\* ------------------------------------------------------------------ exact arithmetic for cyl_faces

\* The guard of cyl_faces compares a normalised component with 0.99, and
\* 1 - 0.99^2 = 199/10000, so an axis sits exactly on the threshold only
\* with a component that is a multiple of sqrt(199).  Numbers are kept as
\* p + r*sqrt(199) with integer p and r; all operations below are exact.
R(p, r) == [p |-> p, r |-> r]

RAdd(a, b) == R(a.p + b.p, a.r + b.r)

RSub(a, b) == R(a.p - b.p, a.r - b.r)

RMul(a, b) == R(a.p * b.p + 199 * a.r * b.r, a.p * b.r + a.r * b.p)

RScale(k, a) == R(k * a.p, k * a.r)

RZero(a) == a.p = 0 /\ a.r = 0

\* p + r*sqrt(199) > 0
RPos(a) ==
    \/ a.p > 0 /\ a.r >= 0
    \/ a.p >= 0 /\ a.r > 0
    \/ a.p > 0 /\ a.r < 0 /\ a.p * a.p > 199 * a.r * a.r
    \/ a.p < 0 /\ a.r > 0 /\ 199 * a.r * a.r > a.p * a.p

RLess(a, b) == RPos(RSub(b, a))

\* np.cross(u, v) and np.dot(u, v) on 3-vectors
Cross(u, v) ==
    << RSub(RMul(u[2], v[3]), RMul(u[3], v[2])),
       RSub(RMul(u[3], v[1]), RMul(u[1], v[3])),
       RSub(RMul(u[1], v[2]), RMul(u[2], v[1])) >>

Dot(u, v) == RAdd(RAdd(RMul(u[1], v[1]), RMul(u[2], v[2])), RMul(u[3], v[3]))

\* A vector d / sqrt(s2): dividing by a norm is kept as the square of the
\* divisor, so no square root is ever taken.
Scaled(d, s2) == [d |-> d, s2 |-> s2]

\* v / np.linalg.norm(v): the same direction, divided by its own length
Normalized(v) == Scaled(v.d, Dot(v.d, v.d))

WorldUp == <<R(0, 0), R(0, 0), R(1, 0)>>

WorldY == <<R(0, 0), R(1, 0), R(0, 0)>>

\* abs(z[2]) < 0.99, squared: 10000 * z[2]^2 < 9801, with z = d / sqrt(s2)
NotNearUp(z) == RLess(RScale(10000, RMul(z.d[3], z.d[3])), RScale(9801, z.s2))

\* faulty variant: no degeneracy guard, world-up is always the reference
FrameNoGuard(vec) ==
    LET z == Normalized(Scaled(vec, R(1, 0)))
        xr == Scaled(Cross(WorldUp, z.d), z.s2)
        x == Normalized(xr)
        y == Scaled(Cross(z.d, x.d), RMul(z.s2, x.s2))
    IN [ref |-> "up", x |-> x, y |-> y, z |-> z,
        divzero |-> RZero(z.s2) \/ RZero(x.s2)]

\* build_and_mesh.py:58-62: the frame (x, y, z) of the cylinder;
\* divzero records a division by a zero length (lines 58 and 61)
Frame(vec) ==
    LET z == Normalized(Scaled(vec, R(1, 0)))
        up == NotNearUp(z)
        xr == Scaled(Cross(IF up THEN WorldUp ELSE WorldY, z.d), z.s2)
        x == Normalized(xr)
        y == Scaled(Cross(z.d, x.d), RMul(z.s2, x.s2))
    IN [ref |-> IF up THEN "up" ELSE "secondary",
        x |-> x, y |-> y, z |-> z,
        divzero |-> RZero(z.s2) \/ RZero(x.s2)]

\* build_and_mesh.py:63-66: ring vertex number i of n sits at angle
\* 2*pi*i/n around the base; lift counts how often vec was added to it
Ring(n) == [i \in 0..(n - 1) |-> [turn |-> <<i, n>>, lift |-> 0]]

\* faulty variant: the last face, which wraps to ring index 0, is left out
cyl_faces_open(base, vec, r, n) ==
    LET c0 == Ring(n)
        c1 == [i \in 0..(n - 1) |-> [c0[i] EXCEPT !.lift = @ + 1]]
    IN [i \in 1..(n - 1) |-> << c0[i - 1], c0[i], c1[i], c1[i - 1] >>]

cyl_faces(base, vec, r, n) ==
    LET c0 == Ring(n)
        c1 == [i \in 0..(n - 1) |-> [c0[i] EXCEPT !.lift = @ + 1]]
    IN [i \in 1..n |-> << c0[i - 1], c0[i % n], c1[i % n], c1[i - 1] >>]

\* build_and_mesh.py:56, the default of n
DefaultSegments == 48

\* build_and_mesh.py:96-99: the two faces drawn for the plate
PlateFaces(p) ==
    LET mx == p.mesh_x  th == p.mesh_thk  ly == p.ly  lz == p.lz
        plate == << <<mx - th \div 2, 0, 0>>, <<mx + th \div 2, 0, 0>>,
                    <<mx + th \div 2, ly, 0>>, <<mx - th \div 2, ly, 0>>,
                    <<mx - th \div 2, 0, lz>>, <<mx + th \div 2, 0, lz>>,
                    <<mx + th \div 2, ly, lz>>, <<mx - th \div 2, ly, lz>> >>
    IN << <<plate[1], plate[2], plate[3], plate[4]>>,
          <<plate[5], plate[6], plate[7], plate[8]>> >>

\* ------------------------------------------------------------------ inputs

\* largest exit status an external tool returns (0 is success)
MaxExit == 1

ExitCodes == 0..MaxExit

\* largest relative L2 error tried, in percent
MaxErrPct == 4

\* test_cube.py:248: assert err < 0.03, in percent
ErrThresholdPct == 3

Sqrt199 == R(0, 1)

\* axes tried by cyl_faces: small integer components, components that put
\* the axis just below, exactly on and just above the 0.99 threshold
\* (15, sqrt(199) and 14 against 99), and both directions of world-up
AxisXY == { R(k, 0) : k \in (-MaxAxis)..MaxAxis } \cup { Sqrt199, R(14, 0), R(15, 0) }

AxisZ == { R(k, 0) : k \in (-MaxAxis)..MaxAxis } \cup { R(99, 0), R(-99, 0) }

Axes == { v \in AxisXY \X AxisXY \X AxisZ : ~RZero(Dot(v, v)) }

Programs == {"build_and_mesh", "test_cube", "cyl_faces"}

NoArgs == [vec |-> WorldUp, n |-> 0]

Event(ev, stage, code) == [ev |-> ev, stage |-> stage, code |-> code]

\* ------------------------------------------------------------------ state machine

\* faulty variant: the preview is drawn before gmsh is called
BuildScriptPreviewFirst == <<"write_geo", "preview", "gmsh", "print">>

\* build_and_mesh.py runs top to bottom: lines 24-47, 50-51, 53, 68-103
BuildScript == <<"write_geo", "gmsh", "print", "preview">>

\* test_cube.py:226-249, main()
MainScript ==
    <<"prepare_case", "write_dictionaries", "blockMesh", "simpleFoam", "postProcess", "compare">>

Script ==
    CASE prog = "build_and_mesh" -> BuildScript
      [] prog = "test_cube" -> MainScript
      [] OTHER -> <<"cyl_faces">>

\* the statement about to run
Stmt == IF pc \in 1..Len(Script) THEN Script[pc] ELSE "end"

Ready(stmt) == status = "ready" /\ Stmt = stmt

\* the next statement, or the end of the script
Advance ==
    /\ pc' = pc + 1
    /\ status' = IF pc + 1 > Len(Script) THEN "done" ELSE "ready"

Init ==
    /\ prog \in Programs
    /\ pc = 1
    /\ status = "ready"
    /\ params \in IF prog = "build_and_mesh"
                  THEN { p \in ParamChoices : ValidParams(p) }
                  ELSE {DefaultParams}
    /\ cylArgs \in IF prog = "cyl_faces"
                   THEN { [vec |-> v, n |-> n] : v \in Axes, n \in 3..MaxSeg }
                   ELSE {NoArgs}
    /\ geo = <<>>
    /\ groups = <<>>
    /\ events = <<>>
    /\ frame = <<>>
    /\ faces = <<>>
    /\ collections = <<>>
    /\ err = 0

\* ---- subprocess.check_call

\* faulty variant: subprocess.call, which returns whatever the exit status
call_unchecked(code) == "returned"

\* what check_call does with the exit status: return on 0, raise
\* CalledProcessError otherwise (nothing in either script catches it)
check_call(code) == IF code = 0 THEN "returned" ELSE "raised"

\* the call blocks: the script does nothing until the tool has exited
CallStart(stage) ==
    /\ Ready(stage)
    /\ events' = Append(events, Event("start", stage, 0))
    /\ status' = "blocked"
    /\ pc' = pc

CallEnd(stage, code) ==
    /\ status = "blocked" /\ Stmt = stage
    /\ events' = Append(events, Event("exit", stage, code))
    /\ IF check_call(code) = "returned"
       THEN Advance
       ELSE pc' = pc /\ status' = "aborted"

\* ---- geometry/build_and_mesh.py

\* build_and_mesh.py:24-47
WriteGeo ==
    /\ Ready("write_geo")
    /\ geo' = geo_template(params)
    /\ events' = Append(events, Event("write", "chamber.geo", 0))
    /\ Advance
    /\ UNCHANGED <<prog, params, groups, cylArgs, frame, faces, collections, err>>

\* build_and_mesh.py:50-51
GmshStart ==
    /\ CallStart("gmsh")
    /\ UNCHANGED <<prog, params, geo, groups, cylArgs, frame, faces, collections, err>>

\* build_and_mesh.py:50-51: gmsh exits; a run that succeeds has read the
\* script and built its physical groups
GmshReturn ==
    /\ \E code \in ExitCodes :
        /\ CallEnd("gmsh", code)
        /\ groups' = IF code = 0 THEN PhysicalGroups(geo) ELSE groups
    /\ UNCHANGED <<prog, params, geo, cylArgs, frame, faces, collections, err>>

\* build_and_mesh.py:53
PrintWritten ==
    /\ Ready("print")
    /\ events' = Append(events, Event("print", "STL written", 0))
    /\ Advance
    /\ UNCHANGED <<prog, params, geo, groups, cylArgs, frame, faces, collections, err>>

\* build_and_mesh.py:68-103: the figure, the three collections, plt.show()
Preview ==
    /\ Ready("preview")
    /\ LET inlet == cyl_faces(<<Mm(4), Mm(10), Mm(2)>>,
                              <<R(0, 0), R(0, 0), R(params.tube_len, 0)>>,
                              params.tube_id \div 2, DefaultSegments)
           outlet == cyl_faces(<<Mm(26), Mm(10), params.lz>>,
                               <<R(0, 0), R(0, 0), R(-params.out_depth, 0)>>,
                               params.out_id \div 2, DefaultSegments)
       IN collections' = << [color |-> "skyblue", faces |-> Len(inlet)],
                            [color |-> "salmon", faces |-> Len(outlet)],
                            [color |-> "forestgreen", faces |-> Len(PlateFaces(params))] >>
    /\ events' = Append(events, Event("preview", "plt.show", 0))
    /\ Advance
    /\ UNCHANGED <<prog, params, geo, groups, cylArgs, frame, faces, err>>

\* ---- test_cube/test_cube.py

\* test_cube.py:25-30
PrepareCase ==
    /\ Ready("prepare_case")
    /\ events' = Append(events, Event("write", "case", 0))
    /\ Advance
    /\ UNCHANGED <<prog, params, geo, groups, cylArgs, frame, faces, collections, err>>

\* test_cube.py:46-223
WriteDictionaries ==
    /\ Ready("write_dictionaries")
    /\ events' = Append(events, Event("write", "dictionaries", 0))
    /\ Advance
    /\ UNCHANGED <<prog, params, geo, groups, cylArgs, frame, faces, collections, err>>

\* the external stages of main(), test_cube.py:231-235
Stages == {"blockMesh", "simpleFoam", "postProcess"}

\* test_cube.py:16-18, run(cmd): the call is made
RunStart ==
    /\ \E stage \in Stages : CallStart(stage)
    /\ UNCHANGED <<prog, params, geo, groups, cylArgs, frame, faces, collections, err>>

\* test_cube.py:16-18, run(cmd): the tool exits
RunReturn ==
    /\ \E stage \in Stages, code \in ExitCodes : CallEnd(stage, code)
    /\ UNCHANGED <<prog, params, geo, groups, cylArgs, frame, faces, collections, err>>

\* test_cube.py:237-249: the relative L2 error of the sampled profile
\* against the parabola, and the assertion on it
Compare ==
    /\ Ready("compare")
    /\ \E e \in 0..MaxErrPct :
        /\ err' = e
        /\ events' = Append(events, Event("compare", "Poiseuille", e))
        /\ IF e < ErrThresholdPct
           THEN Advance
           ELSE pc' = pc /\ status' = "assert_failed"
    /\ UNCHANGED <<prog, params, geo, groups, cylArgs, frame, faces, collections>>

\* ---- cyl_faces on its own

\* build_and_mesh.py:56-66, on any axis and any number of segments
CallCylFaces ==
    /\ Ready("cyl_faces")
    /\ frame' = Frame(cylArgs.vec)
    /\ faces' = cyl_faces(<<0, 0, 0>>, cylArgs.vec, 1, cylArgs.n)
    /\ events' = Append(events, Event("call", "cyl_faces", 0))
    /\ Advance
    /\ UNCHANGED <<prog, params, geo, groups, cylArgs, collections, err>>

Next ==
    \/ WriteGeo \/ GmshStart \/ GmshReturn \/ PrintWritten \/ Preview
    \/ PrepareCase \/ WriteDictionaries \/ RunStart \/ RunReturn \/ Compare
    \/ CallCylFaces

Spec == Init /\ [][Next]_vars

\* ------------------------------------------------------------------ properties: chamber.geo

Written == geo # <<>>

\* the solid-modelling statements of the script, in order
CsgOps(g) ==
    SelectSeq(g, LAMBDA i : i.op \in {"Box", "Cylinder", "BooleanDifference", "BooleanFuse"})

RegionBox(g, name) ==
    LET ps == SelectSeq(g, LAMBDA i : i.op = "PhysicalSurface" /\ i.name = name)
    IN ps[1].args

\* point pt lies in the box, bounds included
Contains(box, pt) ==
    /\ box[1] <= pt[1] /\ pt[1] <= box[4]
    /\ box[2] <= pt[2] /\ pt[2] <= box[5]
    /\ box[3] <= pt[3] /\ pt[3] <= box[6]

\* C1: whatever the parameters, the script creates Box, Cylinder, Cylinder,
\* Box in that order, then takes one Difference (envelope minus the two
\* cylinders) and then one Union (with the plate), and nothing else of the
\* kind.
C1_FixedShape ==
    Written =>
        LET c == CsgOps(geo) IN
        /\ [k \in 1..Len(c) |-> c[k].op]
             = <<"Box", "Cylinder", "Cylinder", "Box", "BooleanDifference", "BooleanFuse">>
        /\ c[5].object = {c[1].tag}
        /\ c[5].tool = {c[2].tag, c[3].tag}
        /\ c[6].tool = {c[4].tag}
        /\ c[1].args[4] = params.lx
        /\ c[4].args[4] = params.mesh_thk

C1_Witness == Written /\ params # DefaultParams

\* Handles under the data model of the specification: a creation makes its
\* tag live; a boolean operation consumes every operand and yields a new
\* handle, one more than any made before.
RECURSIVE Made(_, _)
Made(g, k) ==
    IF k = 0 THEN 0
    ELSE IF g[k].op \in {"Box", "Cylinder"} THEN Max(g[k].tag, Made(g, k - 1))
    ELSE IF g[k].op \in {"BooleanDifference", "BooleanFuse"} THEN Made(g, k - 1) + 1
    ELSE Made(g, k - 1)

RECURSIVE LiveAfter(_, _)
LiveAfter(g, k) ==
    IF k = 0 THEN {}
    ELSE IF g[k].op \in {"Box", "Cylinder"} THEN LiveAfter(g, k - 1) \cup {g[k].tag}
    ELSE IF g[k].op \in {"BooleanDifference", "BooleanFuse"}
         THEN (LiveAfter(g, k - 1) \ (g[k].object \cup g[k].tool)) \cup {Made(g, k)}
    ELSE LiveAfter(g, k - 1)

\* the handles a statement names
Refs(i) == i.object \cup i.tool

\* C2: no statement of the script names a handle that an earlier boolean
\* operation has consumed: every handle named is live where it is used.
C2_NoUseAfterConsume ==
    Written => \A k \in 1..Len(geo) : Refs(geo[k]) \subseteq LiveAfter(geo, k - 1)

\* C3: the regions are declared inlet, outlet, mesh, walls; every surface
\* belongs to exactly one of them, and walls holds no surface that inlet,
\* outlet or mesh selects.
C3_FirstMatchWins ==
    groups # <<>> =>
        /\ [k \in 1..Len(groups) |-> groups[k].name] = <<"inlet", "outlet", "mesh", "walls">>
        /\ \A s \in Surfaces(geo) :
             Cardinality({ k \in 1..Len(groups) : s \in groups[k].members }) = 1
        /\ \A s \in groups[4].members :
             \A k \in 1..3 : s \notin groups[k].members

\* C4: for all valid parameters the inlet box encloses the centre of the
\* inlet tube's top face and the outlet box the centre of the outlet
\* tube's recess face.
C4_BoxesFollowTubes ==
    (Written /\ ValidParams(params)) =>
        /\ Contains(RegionBox(geo, "inlet"), <<Mm(4), Mm(10), Mm(2) + params.tube_len>>)
        /\ Contains(RegionBox(geo, "outlet"), <<Mm(26), Mm(10), params.lz - params.out_depth>>)

\* C5: for every positive plate thickness the mesh box reaches from
\* mesh_x - 0.06 to mesh_x + 0.06, holds both faces of the plate between
\* them, and covers the whole cross-section.
C5_MeshBoxStraddlesPlate ==
    (Written /\ params.mesh_thk > 0) =>
        LET b == RegionBox(geo, "mesh") IN
        /\ b[1] = params.mesh_x - Dec(0, 600)
        /\ b[4] = params.mesh_x + Dec(0, 600)
        /\ b[1] <= params.mesh_x - params.mesh_thk \div 2
        /\ params.mesh_x + params.mesh_thk \div 2 <= b[4]
        /\ b[2] <= 0 /\ params.ly <= b[5]
        /\ b[3] <= 0 /\ params.lz <= b[6]

\* C6: with the default parameters the inlet box contains (4, 10, 20), the
\* outlet box contains (26, 10, 18), and the mesh box leaves at least 0.06
\* on each side of x = 10.
C6_DefaultScenario ==
    (Written /\ params = DefaultParams) =>
        /\ Contains(RegionBox(geo, "inlet"), <<Mm(4), Mm(10), Mm(20)>>)
        /\ Contains(RegionBox(geo, "outlet"), <<Mm(26), Mm(10), Mm(18)>>)
        /\ RegionBox(geo, "mesh")[1] <= Mm(10) - Dec(0, 600)
        /\ Mm(10) + Dec(0, 600) <= RegionBox(geo, "mesh")[4]

C6_Witness == Written /\ params = DefaultParams /\ status = "done"

\* ------------------------------------------------------------------ properties: the runs

IsStart(e) == e.ev = "start"

IsFailure(e) == e.ev = "exit" /\ e.code # 0

\* C7: the external stages run one after another and a non-zero exit ends
\* the run at once: a failed exit is the last thing that ever happens (no
\* later stage, no comparison, no success message, no preview), a stage is
\* started only when everything before it has returned, and no stage is
\* started twice.
C7_AbortOnFailure ==
    /\ \A i \in 1..Len(events) :
         IsFailure(events[i]) => i = Len(events) /\ status = "aborted"
    /\ \A i \in 1..Len(events) :
         IsStart(events[i]) =>
            IF i = Len(events) THEN status = "blocked"
            ELSE events[i + 1].ev = "exit" /\ events[i + 1].stage = events[i].stage
    /\ \A i, j \in 1..Len(events) :
         (IsStart(events[i]) /\ IsStart(events[j]) /\ i # j)
            => events[i].stage # events[j].stage

\* simpleFoam fails after blockMesh has succeeded
C7_Witness ==
    /\ status = "aborted"
    /\ \E i \in 1..Len(events) : IsFailure(events[i]) /\ events[i].stage = "simpleFoam"

IsPreview(e) == e.ev = "preview"

\* C8, as claimed: the preview is on screen before gmsh is invoked.
C8_PreviewBeforeGmsh ==
    \A i \in 1..Len(events) :
        (IsStart(events[i]) /\ events[i].stage = "gmsh")
            => \E j \in 1..(i - 1) : IsPreview(events[j])

\* C8, amended: the preview is rendered only after gmsh has been invoked
\* and has returned with exit status 0.
C8_PreviewAfterGmsh ==
    \A j \in 1..Len(events) :
        IsPreview(events[j]) =>
            \E i \in 1..(j - 1) :
                events[i].ev = "exit" /\ events[i].stage = "gmsh" /\ events[i].code = 0

C8_Witness == \E j \in 1..Len(events) : IsPreview(events[j])

\* ------------------------------------------------------------------ properties: cyl_faces

Called == prog = "cyl_faces" /\ status = "done"

\* ring vertex k of n, lifted by l axis vectors
V(k, n, l) == [turn |-> <<k, n>>, lift |-> l]

\* C9: n faces of four vertices each; face i is base[i], base[i+1 mod n],
\* top[i+1 mod n], top[i]; the last face closes on ring index 0; every ring
\* index starts exactly one face; no face lies in one ring (no end cap).
C9_Quads ==
    Called =>
        LET n == cylArgs.n IN
        /\ Len(faces) = n
        /\ \A i \in 1..Len(faces) :
             /\ Len(faces[i]) = 4
             /\ faces[i] = << V(i - 1, n, 0), V(i % n, n, 0), V(i % n, n, 1), V(i - 1, n, 1) >>
             /\ \E a, b \in 1..4 : faces[i][a].lift # faces[i][b].lift
        /\ faces[Len(faces)][2] = V(0, n, 0)
        /\ \A k \in 0..(n - 1) :
             Cardinality({ i \in 1..Len(faces) : faces[i][1] = V(k, n, 0) }) = 1

C9_Witness == Called /\ cylArgs.n > 3 /\ Len(faces) = cylArgs.n

\* the square of the component of the normalised axis along world-up,
\* times 10000 |axis|^2, and 0.99^2 on the same scale
UpSquared == RScale(10000, RMul(cylArgs.vec[3], cylArgs.vec[3]))

ThresholdSquared == RScale(9801, Dot(cylArgs.vec, cylArgs.vec))

Orthonormal(f) ==
    /\ RZero(Dot(f.x.d, f.z.d))
    /\ RZero(Dot(f.y.d, f.z.d))
    /\ RZero(Dot(f.x.d, f.y.d))
    /\ ~RZero(f.x.s2) /\ Dot(f.x.d, f.x.d) = f.x.s2
    /\ ~RZero(f.y.s2) /\ Dot(f.y.d, f.y.d) = f.y.s2
    /\ ~RZero(f.z.s2) /\ Dot(f.z.d, f.z.d) = f.z.s2

\* C10, as claimed: the secondary axis is the reference exactly when
\* |axis.up| > 0.99, world-up otherwise; the frame is orthonormal and no
\* length divided by is zero.
C10_GuardStrict ==
    Called =>
        /\ (frame.ref = "secondary") <=> RLess(ThresholdSquared, UpSquared)
        /\ frame.ref \in {"up", "secondary"}
        /\ ~frame.divzero
        /\ Orthonormal(frame)

\* C10, amended: the secondary axis is the reference exactly when
\* |axis.up| >= 0.99 (world-up exactly when it is below 0.99); the rest
\* as claimed.
C10_GuardInclusive ==
    Called =>
        /\ (frame.ref = "up") <=> RLess(UpSquared, ThresholdSquared)
        /\ frame.ref \in {"up", "secondary"}
        /\ ~frame.divzero
        /\ Orthonormal(frame)

\* the axis (sqrt(199), 0, 99), for which |axis.up| is exactly 0.99
C10_Witness ==
    /\ Called
    /\ cylArgs.vec = <<Sqrt199, R(0, 0), R(99, 0)>>
    /\ frame.ref = "secondary"

====
